---- MODULE Spec2Model ----
(***************************************************************************)
(* Model of source/platform/x64/linux/stream-server.c: one main thread     *)
(* that runs stream_server_create and then calls stream_server_loop        *)
(* repeatedly, and thread_pool_size worker threads running                 *)
(* thread_pool_handler.  Every pthread call, every queue call and every    *)
(* CHECK_IF_INVALID is one step, so that all interleavings of the threads  *)
(* are explored.                                                           *)
(*                                                                         *)
(* The results of calloc at lines 95 and 152 are used unchecked: when one   *)
(* is NULL the first pthread_create that creates a thread (line 97), or    *)
(* the store of line 153, goes through a null pointer and the process is   *)
(* killed by SIGSEGV.  A                                                   *)
(* write(2) to a connection whose peer has closed raises SIGPIPE, which is *)
(* left at its default action and kills the process.                       *)
(*                                                                         *)
(* The result of pthread_create (line 97) is ignored: a thread that could   *)
(* not be created is simply missing from the pool.                         *)
(*                                                                         *)
(* A Handler is the caller's code.  It may call stream_server_read and     *)
(* stream_server_write (on its own connection or with NULL arguments),     *)
(* which block inside read(2) / write(2) until the kernel returns, call    *)
(* stream_server_close any number of times (on its own connection or with  *)
(* NULL), and may or may not return.  stream_server_close closes the       *)
(* descriptor number stored in the handle, whatever socket it names by     *)
(* then: accept hands the number of a closed connection out again (the    *)
(* number is chosen when accept is called, not when it returns).           *)
(* dynamic_queue_* (dynamic-queue.h) is an external FIFO.                  *)
(***************************************************************************)
EXTENDS Integers, Sequences, FiniteSets, TLC

\* thread_pool_size passed to stream_server_create
NWorkers == 2
\* number of stream_server_loop calls the caller makes
MaxConn == 3
\* largest buffer size passed to stream_server_read / stream_server_write
MaxSize == 2
\* number of stream_server_read / stream_server_write calls a Handler makes
MaxIo == 1
\* the Handlers of the first MaxIoConn connections make such calls
MaxIoConn == 1

\* the null pointer (an empty dequeue result, a failed calloc)
NULL == 0

Workers == 1..NWorkers
Conns == 1..MaxConn

\* a char* data argument that is not NULL
Buffer == 1
\* the values of a size_t argument
Sizes == 0..MaxSize
\* no call of stream_server_read / stream_server_write has been made
NoCall == [fn |-> "none", connection |-> NULL, data |-> NULL, size |-> 0]
\* what a call has returned: nothing yet, nothing at all (a void function
\* that has returned), or a size_t
NoValue == [kind |-> "none", n |-> 0]
Void == [kind |-> "void", n |-> 0]
Value(n) == [kind |-> "size_t", n |-> n]
\* the fields of stream_server_t that stream_server_create writes before
\* the pthread_create loop, in program order
SetupFields == <<"connection_handler", "connection_handler_context",
                 "pool_queue", "mutex", "condition_var", "thread_pool">>

VARIABLES
    alive,      \* the process has not terminated
    mpc,        \* main thread: position in stream_server_create / stream_server_loop
    spawned,    \* loop index i of the pthread_create loop (workers started)
    lsock,      \* state of server->socket_fd
    tpool,      \* server->thread_pool: not yet set, allocated, or NULL
    killedBy,   \* the signal that killed the process, if one did
    returned,   \* stream_server_create has returned a server handle
    mutex,      \* server->mutex: who holds it
    queue,      \* server->pool_queue
    wpc,        \* worker: position in thread_pool_handler
    wconn,      \* worker: local variable connection
    aconn,      \* stream_server_loop: local variable connection
    nextConn,   \* number of successful accepts so far
    accepts,    \* number of accept calls so far
    loopCalls,  \* number of stream_server_loop calls so far
    mem,        \* per connection: its calloc'ed handle
    sockst,     \* per connection: the socket that accept returned for it
    id,         \* per connection: connection->id, the descriptor number
    acceptFd,   \* the descriptor number reserved by the accept call in progress
    hang,       \* per connection: the Handler called with it never returns
    \* history, read by the properties only
    enqOrder, deqOrder, calls, rets, frees,
    closedBy,   \* per connection: whose call closed its socket
    closeCalled, \* per connection: its Handler has called stream_server_close on it
    signals, failed, atrace,
    tries,      \* per worker: dequeues attempted since its pthread_mutex_lock
    waits,      \* per worker: pthread_cond_wait calls since its pthread_mutex_lock
    written,    \* the fields of the server written so far, in program order
    \* per worker: the stream_server_read or stream_server_write call of the
    \* Handler it is running
    lastCall,   \* the function and its arguments
    syscalls,   \* the read(2) / write(2) calls that have returned, with results
    retval,     \* what the function returned, once it has
    ioCalls     \* number of such calls the Handler has made so far

vars == <<alive, killedBy, tpool, mpc, spawned, lsock, returned, mutex, queue, wpc, wconn,
          aconn, nextConn, accepts, loopCalls, mem, sockst, id, acceptFd, hang, enqOrder,
          deqOrder, calls, rets, frees, closedBy, closeCalled, signals, failed, atrace,
          tries, waits, written, lastCall, syscalls, retval, ioCalls>>

srvVars == <<spawned, lsock, returned>>
connVars == <<mem, sockst, hang>>
workerHist == <<deqOrder, calls, rets, frees, closedBy>>
mainHist == <<enqOrder, signals, failed, atrace>>
iterVars == <<tries, waits>>
ioVars == <<lastCall, syscalls, retval, ioCalls>>

----------------------------------------------------------------------------
\* pthread_mutex_t
Free == [kind |-> "free", id |-> NULL]
ByMain == [kind |-> "main", id |-> NULL]
ByWorker(w) == [kind |-> "worker", id |-> w]

\* dynamic_queue_enqueue / dynamic_queue_dequeue: a FIFO; dequeue of an empty
\* queue returns NULL
dynamic_queue_enqueue(q, c) == Append(q, c)
dynamic_queue_front(q) == IF q = <<>> THEN NULL ELSE Head(q)
dynamic_queue_rest(q) == IF q = <<>> THEN q ELSE Tail(q)

\* the descriptor numbers accept can return, counted from the first one
\* above the listening socket
Fds == 1..MaxConn
\* the descriptor numbers that name an open connection socket
OpenFds == {id[c] : c \in {d \in Conns : sockst[d] = "open"}}
\* the lowest-numbered descriptor that is not open: the number accept
\* reserves for the new connection when it is called
LowestFreeFd == CHOOSE f \in Fds \ OpenFds : \A g \in Fds \ OpenFds : f <= g

Waiting == {w \in Workers : wpc[w] = "waiting"}

----------------------------------------------------------------------------
Init ==
    /\ alive = TRUE
    /\ mpc = "create"
    /\ spawned = 0
    /\ lsock = "none"
    /\ tpool = "unset"
    /\ killedBy = "none"
    /\ returned = FALSE
    /\ mutex = Free
    /\ queue = <<>>
    /\ wpc = [w \in Workers |-> "unborn"]
    /\ wconn = [w \in Workers |-> NULL]
    /\ aconn = NULL
    /\ nextConn = 0
    /\ accepts = 0
    /\ loopCalls = 0
    /\ mem = [c \in Conns |-> "unalloc"]
    /\ sockst = [c \in Conns |-> "none"]
    /\ id = [c \in Conns |-> NULL]
    /\ acceptFd = NULL
    /\ hang = [c \in Conns |-> FALSE]
    /\ enqOrder = <<>>
    /\ deqOrder = <<>>
    /\ calls = [c \in Conns |-> 0]
    /\ rets = [c \in Conns |-> 0]
    /\ frees = [c \in Conns |-> 0]
    /\ closedBy = [c \in Conns |-> "nobody"]
    /\ closeCalled = [c \in Conns |-> FALSE]
    /\ signals = 0
    /\ failed = {}
    /\ atrace = <<>>
    /\ tries = [w \in Workers |-> 0]
    /\ waits = [w \in Workers |-> 0]
    /\ written = <<>>
    /\ lastCall = [w \in Workers |-> NoCall]
    /\ syscalls = [w \in Workers |-> <<>>]
    /\ retval = [w \in Workers |-> NoValue]
    /\ ioCalls = [w \in Workers |-> 0]

----------------------------------------------------------------------------
\* Mutant of CheckFailed: the failure is logged and the function returns to
\* its caller instead of calling exit.
CheckFailedReturn(what) ==
    /\ mpc' = "idle"
    /\ failed' = failed \cup {what}

\* CHECK_IF_INVALID(x, msg) with x < 0: E(msg), then exit(-1).  The main
\* thread is inside E/exit from here on; the other threads run until the
\* process is gone (ProcessExit).
CheckFailed(what) ==
    /\ mpc' = "exiting"
    /\ failed' = failed \cup {what}

\* exit(-1) completes: every thread of the process is gone.
ProcessExit ==
    /\ alive /\ mpc = "exiting"
    /\ alive' = FALSE
    /\ UNCHANGED <<iterVars, written, acceptFd, id, closeCalled, ioVars, tpool, killedBy>>
    /\ UNCHANGED <<mpc, srvVars, mutex, queue, wpc, wconn, aconn, nextConn, accepts,
                   loopCalls, connVars, workerHist, mainHist>>

\* Mutant of CreateInit: the handler and its context are not stored in the
\* server before the threads are started.
CreateInitLate(ok, pool) ==
    /\ alive /\ mpc = "create"
    /\ mpc' = IF ok THEN "spawn" ELSE "nullsrv"
    /\ tpool' = IF ok THEN (IF pool THEN "alloc" ELSE "null") ELSE tpool
    /\ written' = IF ok THEN SubSeq(SetupFields, 3, Len(SetupFields)) ELSE written
    /\ UNCHANGED <<iterVars, acceptFd, id, closeCalled, ioVars, killedBy>>
    /\ UNCHANGED <<alive, srvVars, mutex, queue, wpc, wconn, aconn, nextConn, accepts,
                   loopCalls, connVars, workerHist, mainHist>>

\* stream_server_create, lines 86-95: calloc of the server (NULL: return
\* NULL), handler, context, queue, mutex, condition variable, thread table
\* (the calloc of line 95 may return NULL, which is stored unchecked).
CreateInit(ok, pool) ==
    /\ alive /\ mpc = "create"
    /\ mpc' = IF ok THEN "spawn" ELSE "nullsrv"
    /\ tpool' = IF ok THEN (IF pool THEN "alloc" ELSE "null") ELSE tpool
    /\ written' = IF ok THEN SetupFields ELSE written
    /\ UNCHANGED <<iterVars, acceptFd, id, closeCalled, ioVars, killedBy>>
    /\ UNCHANGED <<alive, srvVars, mutex, queue, wpc, wconn, aconn, nextConn, accepts,
                   loopCalls, connVars, workerHist, mainHist>>

\* lines 96-98: the loop test i < thread_pool_size holds and one
\* pthread_create(server->thread_pool + i, ...) is made.  Its result is
\* ignored: when it fails no thread exists for this slot and the loop goes
\* on, also with a NULL thread table, through which nothing is stored
\* then.  A pthread_create that can create the thread stores the thread id
\* in the table; with a NULL table that store goes through a null pointer:
\* SIGSEGV.
CreateSpawn(ok) ==
    /\ alive /\ mpc = "spawn"
    /\ spawned < NWorkers
    /\ IF tpool = "null" /\ ok
         THEN /\ alive' = FALSE
              /\ killedBy' = "SIGSEGV"
              /\ UNCHANGED <<spawned, wpc>>
         ELSE /\ spawned' = spawned + 1
              /\ wpc' = IF ok THEN [wpc EXCEPT ![spawned + 1] = "lock"] ELSE wpc
              /\ UNCHANGED <<alive, killedBy>>
    /\ UNCHANGED <<iterVars, written, acceptFd, id, closeCalled, ioVars, tpool>>
    /\ UNCHANGED <<mpc, lsock, returned, mutex, queue, wconn, aconn,
                   nextConn, accepts, loopCalls, connVars, workerHist, mainHist>>

\* Mutant of CreateSpawnEnd: the pthread_create loop is left one thread
\* short.
CreateSpawnEndEarly ==
    /\ alive /\ mpc = "spawn"
    /\ spawned >= NWorkers - 1
    /\ mpc' = "socket"
    /\ UNCHANGED <<iterVars, written, acceptFd, id, closeCalled, ioVars, tpool, killedBy>>
    /\ UNCHANGED <<alive, srvVars, mutex, queue, wpc, wconn, aconn, nextConn, accepts,
                   loopCalls, connVars, workerHist, mainHist>>

\* line 96: the loop test i < thread_pool_size fails, the loop is left
CreateSpawnEnd ==
    /\ alive /\ mpc = "spawn"
    /\ spawned >= NWorkers
    /\ mpc' = "socket"
    /\ UNCHANGED <<iterVars, written, acceptFd, id, closeCalled, ioVars, tpool, killedBy>>
    /\ UNCHANGED <<alive, srvVars, mutex, queue, wpc, wconn, aconn, nextConn, accepts,
                   loopCalls, connVars, workerHist, mainHist>>

\* lines 100-117: socket, setsockopt, bind, listen, each followed by
\* CHECK_IF_INVALID; listen's success is followed by return server.
CreateStep(at, next, state, ok) ==
    /\ alive /\ mpc = at
    /\ IF ok
         THEN /\ mpc' = next
              /\ lsock' = state
              /\ returned' = (next = "idle")
              /\ UNCHANGED failed
         ELSE /\ CheckFailed(at)
              /\ UNCHANGED <<lsock, returned>>
    /\ written' = IF at = "socket" THEN Append(written, "socket_fd") ELSE written
    /\ UNCHANGED <<iterVars, acceptFd, id, closeCalled, ioVars, tpool, killedBy>>
    /\ UNCHANGED <<alive, spawned, mutex, queue, wpc, wconn, aconn, nextConn, accepts,
                   loopCalls, connVars, workerHist, enqOrder, signals, atrace>>

CreateSocket(ok) == CreateStep("socket", "setsockopt", "created", ok)
CreateSetsockopt(ok) == CreateStep("setsockopt", "bind", "reuseaddr", ok)
CreateBind(ok) == CreateStep("bind", "listen", "bound", ok)
CreateListen(ok) == CreateStep("listen", "idle", "listening", ok)

----------------------------------------------------------------------------
\* stream_server_loop(NULL), lines 147-149: returns at once
LoopNull ==
    /\ alive /\ mpc = "nullsrv" /\ loopCalls < MaxConn
    /\ loopCalls' = loopCalls + 1
    /\ UNCHANGED <<iterVars, written, acceptFd, id, closeCalled, ioVars, tpool, killedBy>>
    /\ UNCHANGED <<alive, mpc, srvVars, mutex, queue, wpc, wconn, aconn,
                   nextConn, accepts, connVars, workerHist, mainHist>>

\* stream_server_loop(server), lines 146-150, server not NULL: accept is
\* called.  The kernel reserves the lowest-numbered free descriptor for the
\* new connection at the call, before it blocks; a descriptor closed while
\* the call is blocked does not change the number it will return.
LoopCall ==
    /\ alive /\ mpc = "idle" /\ loopCalls < MaxConn
    /\ loopCalls' = loopCalls + 1
    /\ mpc' = "accept"
    /\ acceptFd' = LowestFreeFd
    /\ atrace' = <<>>
    /\ UNCHANGED <<iterVars, written, id, closeCalled, ioVars, tpool, killedBy>>
    /\ UNCHANGED <<alive, srvVars, mutex, queue, wpc, wconn, aconn, nextConn,
                   accepts, connVars, workerHist, enqOrder, signals, failed>>

\* lines 150-151: accept returns, CHECK_IF_INVALID.  The descriptor
\* returned is the number reserved at the call, the lowest one that was free
\* then, so the number of a connection closed before the call is handed out
\* again; it is the value line 153 stores in connection->id.  A failed
\* accept gives the number back.
LoopAccept(ok) ==
    /\ alive /\ mpc = "accept"
    /\ accepts' = accepts + 1
    /\ atrace' = Append(atrace, "accept")
    /\ IF ok
         THEN /\ nextConn' = nextConn + 1
              /\ sockst' = [sockst EXCEPT ![nextConn + 1] = "open"]
              /\ id' = [id EXCEPT ![nextConn + 1] = acceptFd]
              /\ mpc' = "calloc"
              /\ UNCHANGED failed
         ELSE /\ CheckFailed("accept")
              /\ UNCHANGED <<nextConn, sockst, id>>
    /\ acceptFd' = NULL
    /\ UNCHANGED <<iterVars, written, closeCalled, ioVars, tpool, killedBy>>
    /\ UNCHANGED <<alive, srvVars, mutex, queue, wpc, wconn, aconn, loopCalls,
                   mem, hang, workerHist, enqOrder, signals>>

\* lines 152-153: calloc the handle, connection->id = connection_fd.  The
\* result of calloc is not checked: when it is NULL the store of line 153
\* goes through a null pointer and the process is killed by SIGSEGV.
LoopCreateHandle(ok) ==
    /\ alive /\ mpc = "calloc"
    /\ IF ok
         THEN /\ aconn' = nextConn
              /\ mem' = [mem EXCEPT ![nextConn] = "live"]
              /\ mpc' = "lock"
              /\ atrace' = Append(atrace, "create")
              /\ UNCHANGED <<alive, killedBy>>
         ELSE /\ alive' = FALSE
              /\ killedBy' = "SIGSEGV"
              /\ UNCHANGED <<aconn, mem, mpc, atrace>>
    /\ UNCHANGED <<iterVars, written, acceptFd, id, closeCalled, ioVars, tpool>>
    /\ UNCHANGED <<srvVars, mutex, queue, wpc, wconn, nextConn, accepts,
                   loopCalls, sockst, hang, workerHist, enqOrder, signals, failed>>

\* line 154: pthread_mutex_lock
LoopLock ==
    /\ alive /\ mpc = "lock"
    /\ mutex = Free
    /\ mutex' = ByMain
    /\ mpc' = "enqueue"
    /\ atrace' = Append(atrace, "lock")
    /\ UNCHANGED <<iterVars, written, acceptFd, id, closeCalled, ioVars, tpool, killedBy>>
    /\ UNCHANGED <<alive, srvVars, queue, wpc, wconn, aconn, nextConn, accepts,
                   loopCalls, connVars, workerHist, enqOrder, signals, failed>>

\* Mutant of LoopEnqueue: the handle is put at the front of the queue.
LoopEnqueueFront ==
    /\ alive /\ mpc = "enqueue"
    /\ queue' = <<aconn>> \o queue
    /\ enqOrder' = Append(enqOrder, aconn)
    /\ mpc' = "signal"
    /\ atrace' = Append(atrace, "enqueue")
    /\ UNCHANGED <<iterVars, written, acceptFd, id, closeCalled, ioVars, tpool, killedBy>>
    /\ UNCHANGED <<alive, srvVars, mutex, wpc, wconn, aconn, nextConn, accepts,
                   loopCalls, connVars, workerHist, signals, failed>>

\* line 155: dynamic_queue_enqueue
LoopEnqueue ==
    /\ alive /\ mpc = "enqueue"
    /\ queue' = dynamic_queue_enqueue(queue, aconn)
    /\ enqOrder' = Append(enqOrder, aconn)
    /\ mpc' = "signal"
    /\ atrace' = Append(atrace, "enqueue")
    /\ UNCHANGED <<iterVars, written, acceptFd, id, closeCalled, ioVars, tpool, killedBy>>
    /\ UNCHANGED <<alive, srvVars, mutex, wpc, wconn, aconn, nextConn, accepts,
                   loopCalls, connVars, workerHist, signals, failed>>

\* Mutant of LoopSignal: the signal is left out, no waiting worker is woken.
LoopSignalLost ==
    /\ alive /\ mpc = "signal"
    /\ signals' = signals + 1
    /\ mpc' = "unlock"
    /\ atrace' = Append(atrace, "signal")
    /\ UNCHANGED <<iterVars, written, acceptFd, id, closeCalled, ioVars, tpool, killedBy>>
    /\ UNCHANGED <<alive, srvVars, mutex, queue, wpc, wconn, aconn, nextConn,
                   accepts, loopCalls, connVars, workerHist, enqOrder, failed>>

\* line 156: pthread_cond_signal unblocks at least one of the threads blocked
\* on the condition variable, if any is
LoopSignal ==
    /\ alive /\ mpc = "signal"
    /\ \E woken \in SUBSET Waiting :
         /\ (Waiting # {}) => (woken # {})
         /\ wpc' = [w \in Workers |-> IF w \in woken THEN "woken" ELSE wpc[w]]
    /\ signals' = signals + 1
    /\ mpc' = "unlock"
    /\ atrace' = Append(atrace, "signal")
    /\ UNCHANGED <<iterVars, written, acceptFd, id, closeCalled, ioVars, tpool, killedBy>>
    /\ UNCHANGED <<alive, srvVars, mutex, queue, wconn, aconn, nextConn, accepts,
                   loopCalls, connVars, workerHist, enqOrder, failed>>

\* Mutant of LoopUnlock: stream_server_loop loops back to accept instead of
\* returning.
LoopUnlockAgain ==
    /\ alive /\ mpc = "unlock"
    /\ mutex' = Free
    /\ aconn' = NULL
    /\ mpc' = "accept"
    /\ atrace' = Append(atrace, "unlock")
    /\ UNCHANGED <<iterVars, written, acceptFd, id, closeCalled, ioVars, tpool, killedBy>>
    /\ UNCHANGED <<alive, srvVars, queue, wpc, wconn, nextConn, accepts, loopCalls,
                   connVars, workerHist, enqOrder, signals, failed>>

\* line 157: pthread_mutex_unlock, and return
LoopUnlock ==
    /\ alive /\ mpc = "unlock"
    /\ mutex' = Free
    /\ aconn' = NULL
    /\ mpc' = "idle"
    /\ atrace' = Append(atrace, "unlock")
    /\ UNCHANGED <<iterVars, written, acceptFd, id, closeCalled, ioVars, tpool, killedBy>>
    /\ UNCHANGED <<alive, srvVars, queue, wpc, wconn, nextConn, accepts, loopCalls,
                   connVars, workerHist, enqOrder, signals, failed>>

----------------------------------------------------------------------------
\* line 67: pthread_mutex_lock
WorkerLock(w) ==
    /\ alive /\ wpc[w] = "lock"
    /\ mutex = Free
    /\ mutex' = ByWorker(w)
    /\ wpc' = [wpc EXCEPT ![w] = "deq1"]
    /\ UNCHANGED <<iterVars, written, acceptFd, id, closeCalled, ioVars, tpool, killedBy>>
    /\ UNCHANGED <<alive, mpc, srvVars, queue, wconn, aconn, nextConn, accepts,
                   loopCalls, connVars, workerHist, mainHist>>

\* Mutant of Dequeue: the front element is read but left in the queue.
DequeuePeek(w) ==
    LET c == dynamic_queue_front(queue) IN
    /\ wconn' = [wconn EXCEPT ![w] = c]
    /\ queue' = queue
    /\ deqOrder' = IF c # NULL THEN Append(deqOrder, c) ELSE deqOrder
    /\ tries' = [tries EXCEPT ![w] = @ + 1]

\* Mutant of Dequeue: the element enqueued last is taken.
DequeueLast(w) ==
    LET c == IF queue = <<>> THEN NULL ELSE queue[Len(queue)] IN
    /\ wconn' = [wconn EXCEPT ![w] = c]
    /\ queue' = IF queue = <<>> THEN queue ELSE SubSeq(queue, 1, Len(queue) - 1)
    /\ deqOrder' = IF c # NULL THEN Append(deqOrder, c) ELSE deqOrder
    /\ tries' = [tries EXCEPT ![w] = @ + 1]

\* connection = dynamic_queue_dequeue(server->pool_queue), by worker w
Dequeue(w) ==
    LET c == dynamic_queue_front(queue) IN
    /\ wconn' = [wconn EXCEPT ![w] = c]
    /\ queue' = dynamic_queue_rest(queue)
    /\ deqOrder' = IF c # NULL THEN Append(deqOrder, c) ELSE deqOrder
    /\ tries' = [tries EXCEPT ![w] = @ + 1]

\* Mutant of WorkerDequeue1: the worker waits for a signal before it looks at
\* the queue at all.
WorkerDequeue1WaitFirst(w) ==
    /\ alive /\ wpc[w] = "deq1"
    /\ wpc' = [wpc EXCEPT ![w] = "wait"]
    /\ UNCHANGED <<iterVars, written, acceptFd, id, closeCalled, ioVars, tpool, killedBy>>
    /\ UNCHANGED <<alive, mpc, srvVars, mutex, queue, wconn, aconn, nextConn,
                   accepts, loopCalls, connVars, workerHist, mainHist>>

\* lines 68-69: the first dequeue, and the test that sends the worker to wait
WorkerDequeue1(w) ==
    /\ alive /\ wpc[w] = "deq1"
    /\ Dequeue(w)
    /\ wpc' = [wpc EXCEPT ![w] = IF wconn'[w] = NULL THEN "wait" ELSE "unlock"]
    /\ UNCHANGED <<waits, written, acceptFd, id, closeCalled, ioVars, tpool, killedBy>>
    /\ UNCHANGED <<alive, mpc, srvVars, mutex, aconn, nextConn, accepts, loopCalls,
                   connVars, calls, rets, frees, closedBy, mainHist>>

\* line 70: pthread_cond_wait releases the mutex and blocks, atomically
WorkerWait(w) ==
    /\ alive /\ wpc[w] = "wait"
    /\ mutex' = Free
    /\ wpc' = [wpc EXCEPT ![w] = "waiting"]
    /\ waits' = [waits EXCEPT ![w] = @ + 1]
    /\ UNCHANGED <<tries, written, acceptFd, id, closeCalled, ioVars, tpool, killedBy>>
    /\ UNCHANGED <<alive, mpc, srvVars, queue, wconn, aconn, nextConn, accepts,
                   loopCalls, connVars, workerHist, mainHist>>

\* line 70: pthread_cond_wait may return without any signal
SpuriousWakeup(w) ==
    /\ alive /\ wpc[w] = "waiting"
    /\ wpc' = [wpc EXCEPT ![w] = "woken"]
    /\ UNCHANGED <<iterVars, written, acceptFd, id, closeCalled, ioVars, tpool, killedBy>>
    /\ UNCHANGED <<alive, mpc, srvVars, mutex, queue, wconn, aconn, nextConn,
                   accepts, loopCalls, connVars, workerHist, mainHist>>

\* Mutant of WorkerReacquire: the woken worker goes on to the retry without
\* waiting for the mutex to be free.
WorkerReacquireBarging(w) ==
    /\ alive /\ wpc[w] = "woken"
    /\ mutex' = ByWorker(w)
    /\ wpc' = [wpc EXCEPT ![w] = "deq2"]
    /\ UNCHANGED <<iterVars, written, acceptFd, id, closeCalled, ioVars, tpool, killedBy>>
    /\ UNCHANGED <<alive, mpc, srvVars, queue, wconn, aconn, nextConn, accepts,
                   loopCalls, connVars, workerHist, mainHist>>

\* line 70: pthread_cond_wait reacquires the mutex before it returns
WorkerReacquire(w) ==
    /\ alive /\ wpc[w] = "woken"
    /\ mutex = Free
    /\ mutex' = ByWorker(w)
    /\ wpc' = [wpc EXCEPT ![w] = "deq2"]
    /\ UNCHANGED <<iterVars, written, acceptFd, id, closeCalled, ioVars, tpool, killedBy>>
    /\ UNCHANGED <<alive, mpc, srvVars, queue, wconn, aconn, nextConn, accepts,
                   loopCalls, connVars, workerHist, mainHist>>

\* Mutant of WorkerDequeue2: the woken worker leaves without the retry.
WorkerDequeue2Skip(w) ==
    /\ alive /\ wpc[w] = "deq2"
    /\ wpc' = [wpc EXCEPT ![w] = "unlock"]
    /\ UNCHANGED <<iterVars, written, acceptFd, id, closeCalled, ioVars, tpool, killedBy>>
    /\ UNCHANGED <<alive, mpc, srvVars, mutex, queue, wconn, aconn, nextConn,
                   accepts, loopCalls, connVars, workerHist, mainHist>>

\* Mutant of WorkerDequeue2: the wait and the retry are repeated until the
\* dequeue returns a connection.
WorkerDequeue2Loop(w) ==
    /\ alive /\ wpc[w] = "deq2"
    /\ Dequeue(w)
    /\ wpc' = [wpc EXCEPT ![w] = IF wconn'[w] = NULL THEN "wait" ELSE "unlock"]
    /\ UNCHANGED <<waits, written, acceptFd, id, closeCalled, ioVars, tpool, killedBy>>
    /\ UNCHANGED <<alive, mpc, srvVars, mutex, aconn, nextConn, accepts, loopCalls,
                   connVars, calls, rets, frees, closedBy, mainHist>>

\* line 71: the one retry after the wait
WorkerDequeue2(w) ==
    /\ alive /\ wpc[w] = "deq2"
    /\ Dequeue(w)
    /\ wpc' = [wpc EXCEPT ![w] = "unlock"]
    /\ UNCHANGED <<waits, written, acceptFd, id, closeCalled, ioVars, tpool, killedBy>>
    /\ UNCHANGED <<alive, mpc, srvVars, mutex, aconn, nextConn, accepts, loopCalls,
                   connVars, calls, rets, frees, closedBy, mainHist>>

\* Mutant of WorkerUnlock: the mutex is kept across the Handler call.
WorkerUnlockKeep(w) ==
    /\ alive /\ wpc[w] = "unlock"
    /\ wpc' = [wpc EXCEPT ![w] = "dispatch"]
    /\ tries' = [tries EXCEPT ![w] = 0]
    /\ waits' = [waits EXCEPT ![w] = 0]
    /\ UNCHANGED <<written, acceptFd, id, closeCalled, ioVars, tpool, killedBy>>
    /\ UNCHANGED <<alive, mpc, srvVars, mutex, queue, wconn, aconn, nextConn,
                   accepts, loopCalls, connVars, workerHist, mainHist>>

\* line 73: pthread_mutex_unlock
WorkerUnlock(w) ==
    /\ alive /\ wpc[w] = "unlock"
    /\ mutex' = Free
    /\ wpc' = [wpc EXCEPT ![w] = "dispatch"]
    /\ tries' = [tries EXCEPT ![w] = 0]
    /\ waits' = [waits EXCEPT ![w] = 0]
    /\ UNCHANGED <<written, acceptFd, id, closeCalled, ioVars, tpool, killedBy>>
    /\ UNCHANGED <<alive, mpc, srvVars, queue, wconn, aconn, nextConn, accepts,
                   loopCalls, connVars, workerHist, mainHist>>

\* Mutant of WorkerDispatch: the handle is freed before the Handler is called.
WorkerDispatchEarlyFree(w) ==
    /\ alive /\ wpc[w] = "dispatch"
    /\ IF wconn[w] # NULL
         THEN /\ wpc' = [wpc EXCEPT ![w] = "handler"]
              /\ calls' = [calls EXCEPT ![wconn[w]] = @ + 1]
              /\ mem' = [mem EXCEPT ![wconn[w]] = "freed"]
              /\ frees' = [frees EXCEPT ![wconn[w]] = @ + 1]
              /\ \E h \in BOOLEAN : hang' = [hang EXCEPT ![wconn[w]] = h]
         ELSE /\ wpc' = [wpc EXCEPT ![w] = "lock"]
              /\ UNCHANGED <<calls, hang, mem, frees>>
    /\ UNCHANGED <<iterVars, written, acceptFd, id, closeCalled, ioVars, tpool, killedBy>>
    /\ UNCHANGED <<alive, mpc, srvVars, mutex, queue, wconn, aconn, nextConn,
                   accepts, loopCalls, sockst, deqOrder, rets, closedBy,
                   mainHist>>

\* Mutant of WorkerDispatch: the Handler is started and the worker goes on to
\* its next iteration without waiting for it to return.
WorkerDispatchDetached(w) ==
    /\ alive /\ wpc[w] = "dispatch"
    /\ IF wconn[w] # NULL
         THEN /\ calls' = [calls EXCEPT ![wconn[w]] = @ + 1]
              /\ \E h \in BOOLEAN : hang' = [hang EXCEPT ![wconn[w]] = h]
         ELSE UNCHANGED <<calls, hang>>
    /\ wpc' = [wpc EXCEPT ![w] = "lock"]
    /\ wconn' = [wconn EXCEPT ![w] = NULL]
    /\ UNCHANGED <<iterVars, written, acceptFd, id, closeCalled, ioVars, tpool, killedBy>>
    /\ UNCHANGED <<alive, mpc, srvVars, mutex, queue, aconn, nextConn, accepts,
                   loopCalls, mem, sockst, deqOrder, rets, frees, closedBy,
                   mainHist>>

\* lines 74-75: if (connection) the Handler is called, else the next
\* iteration.  Whether this Handler will ever return is the Handler's choice.
WorkerDispatch(w) ==
    /\ alive /\ wpc[w] = "dispatch"
    /\ IF wconn[w] # NULL
         THEN /\ wpc' = [wpc EXCEPT ![w] = "handler"]
              /\ calls' = [calls EXCEPT ![wconn[w]] = @ + 1]
              /\ \E h \in BOOLEAN : hang' = [hang EXCEPT ![wconn[w]] = h]
         ELSE /\ wpc' = [wpc EXCEPT ![w] = "lock"]
              /\ UNCHANGED <<calls, hang>>
    /\ UNCHANGED <<iterVars, written, acceptFd, id, closeCalled, ioVars, tpool, killedBy>>
    /\ UNCHANGED <<alive, mpc, srvVars, mutex, queue, wconn, aconn, nextConn,
                   accepts, loopCalls, mem, sockst, deqOrder, rets, frees,
                   closedBy, mainHist>>

\* stream_server_read and stream_server_write, called by a Handler.  The
\* result of the underlying read(2) / write(2) is chosen by the peer and the
\* kernel: -1 for an error, 0 for end of stream (read), or a byte count up
\* to the size asked for; the call returns when the kernel lets it, and the
\* other threads run in the meantime.

\* the state of the server, its threads and its connections
srvState == <<tpool, mpc, srvVars, mutex, queue, wpc, wconn, aconn, nextConn,
              accepts, loopCalls, connVars, acceptFd, id, workerHist, closeCalled,
              mainHist, iterVars, written>>

\* the guard of lines 121 and 133
InvalidArgs(connection, data, size) ==
    connection = NULL \/ data = NULL \/ size < 1

\* the Handler run by worker w is inside read(2) / write(2)
Pending(w) ==
    /\ lastCall[w].fn # "none"
    /\ ~InvalidArgs(lastCall[w].connection, lastCall[w].data, lastCall[w].size)
    /\ syscalls[w] = <<>>

\* Mutant of stream_server_read: the result of read is returned as it is.
stream_server_read_raw(connection, data, max_data_size, read_bytes) ==
    IF InvalidArgs(connection, data, max_data_size)
      THEN [ret |-> 0, sys |-> <<>>]
      ELSE [ret |-> read_bytes,
            sys |-> <<[op |-> "read", fd |-> connection,
                       count |-> max_data_size, result |-> read_bytes]>>]

\* lines 120-130; read_bytes is what read(connection->id, data,
\* max_data_size) returns if it is called
stream_server_read(connection, data, max_data_size, read_bytes) ==
    IF InvalidArgs(connection, data, max_data_size)
      THEN [ret |-> 0, sys |-> <<>>]
      ELSE [ret |-> IF read_bytes > 0 THEN read_bytes ELSE 0,
            sys |-> <<[op |-> "read", fd |-> connection,
                       count |-> max_data_size, result |-> read_bytes]>>]

\* Mutant of stream_server_write: a failed or short write is tried again.
stream_server_write_retry(connection, data, data_size, written_bytes, sigpipe) ==
    LET call == [op |-> "write", fd |-> connection, count |-> data_size,
                 result |-> written_bytes,
                 signal |-> IF sigpipe THEN "SIGPIPE" ELSE "none"] IN
    IF InvalidArgs(connection, data, data_size)
      THEN [ret |-> Void, sys |-> <<>>, killed |-> FALSE]
      ELSE IF sigpipe
        THEN [ret |-> NoValue, sys |-> <<call>>, killed |-> TRUE]
        ELSE [ret |-> Void,
              sys |-> IF written_bytes < data_size THEN <<call, call>>
                                                   ELSE <<call>>,
              killed |-> FALSE]

\* lines 132-137; written_bytes is what write(connection->id, data,
\* data_size) returns if it is called; the result is not looked at.  When
\* the peer has closed, write fails with EPIPE and raises SIGPIPE (sigpipe);
\* the signal is neither ignored nor handled, so the process is killed and
\* the function does not return.
stream_server_write(connection, data, data_size, written_bytes, sigpipe) ==
    LET call == [op |-> "write", fd |-> connection, count |-> data_size,
                 result |-> written_bytes,
                 signal |-> IF sigpipe THEN "SIGPIPE" ELSE "none"] IN
    IF InvalidArgs(connection, data, data_size)
      THEN [ret |-> Void, sys |-> <<>>, killed |-> FALSE]
      ELSE IF sigpipe
        THEN [ret |-> NoValue, sys |-> <<call>>, killed |-> TRUE]
        ELSE [ret |-> Void, sys |-> <<call>>, killed |-> FALSE]

\* The Handler run by worker w calls fn (stream_server_read or
\* stream_server_write).  With invalid arguments the function returns at
\* once (lines 121-123, 133-135); otherwise the thread enters read(2) or
\* write(2) (lines 124, 136).
IoCall(w, fn, connection, data, size) ==
    /\ alive /\ wpc[w] = "handler"
    /\ ~Pending(w)
    /\ wconn[w] <= MaxIoConn
    /\ ioCalls[w] < MaxIo
    /\ ioCalls' = [ioCalls EXCEPT ![w] = @ + 1]
    /\ lastCall' = [lastCall EXCEPT ![w] =
                      [fn |-> fn, connection |-> connection, data |-> data,
                       size |-> size]]
    /\ syscalls' = [syscalls EXCEPT ![w] = <<>>]
    /\ retval' = [retval EXCEPT ![w] =
                    IF InvalidArgs(connection, data, size)
                      THEN IF fn = "read"
                             THEN Value(stream_server_read(connection, data,
                                                           size, 0).ret)
                             ELSE stream_server_write(connection, data, size, 0,
                                                      FALSE).ret
                      ELSE NoValue]
    /\ UNCHANGED <<alive, killedBy, srvState>>

\* read(2) returns read_bytes and stream_server_read returns (lines 124-129)
IoReadReturn(w, read_bytes) ==
    LET c == lastCall[w]
        r == stream_server_read(c.connection, c.data, c.size, read_bytes) IN
    /\ alive /\ wpc[w] = "handler"
    /\ Pending(w) /\ c.fn = "read"
    /\ read_bytes <= c.size
    /\ syscalls' = [syscalls EXCEPT ![w] = r.sys]
    /\ retval' = [retval EXCEPT ![w] = Value(r.ret)]
    /\ UNCHANGED <<alive, killedBy, srvState, lastCall, ioCalls>>

\* write(2) returns written_bytes and stream_server_write returns, or
\* write(2) raises SIGPIPE and the process is killed (line 136)
IoWriteReturn(w, written_bytes, sigpipe) ==
    LET c == lastCall[w]
        r == stream_server_write(c.connection, c.data, c.size, written_bytes,
                                 sigpipe) IN
    /\ alive /\ wpc[w] = "handler"
    /\ Pending(w) /\ c.fn = "write"
    /\ written_bytes <= c.size
    /\ sigpipe => written_bytes = -1
    /\ syscalls' = [syscalls EXCEPT ![w] = r.sys]
    /\ retval' = [retval EXCEPT ![w] = r.ret]
    /\ IF r.killed
         THEN /\ alive' = FALSE
              /\ killedBy' = "SIGPIPE"
         ELSE UNCHANGED <<alive, killedBy>>
    /\ UNCHANGED <<srvState, lastCall, ioCalls>>

\* the pending call of worker w's Handler returns (or kills the process)
IoReturn(w) ==
    \E result \in -1..MaxSize :
        \/ IoReadReturn(w, result)
        \/ \E sigpipe \in BOOLEAN : IoWriteReturn(w, result, sigpipe)

\* the connection whose open socket has the descriptor number d (none or
\* one)
SocketOf(d) == {c \in Conns : sockst[c] = "open" /\ id[c] = d}

\* lines 139-144: stream_server_close(connection), called by the Handler
\* run by worker w, any number of times.  A NULL connection is a no-op
\* (lines 140-142).  Otherwise close(connection->id) closes whatever socket
\* has that descriptor number now (line 143): the connection's own, or,
\* when that was closed before and accept has handed the number out again,
\* the socket of a later connection; with no such socket close fails
\* (EBADF) and nothing changes.  connection->id is left as it is.
stream_server_close(w, connection) ==
    /\ alive /\ wpc[w] = "handler"
    /\ ~Pending(w)
    /\ IF connection = NULL
         THEN UNCHANGED <<sockst, closedBy, closeCalled>>
         ELSE /\ closeCalled' = [closeCalled EXCEPT ![connection] = TRUE]
              /\ sockst' = [c \in Conns |->
                              IF c \in SocketOf(id[connection])
                                THEN "closed" ELSE sockst[c]]
              /\ closedBy' = [c \in Conns |->
                                IF c \in SocketOf(id[connection])
                                  THEN IF c = connection THEN "handler"
                                                         ELSE "stale"
                                  ELSE closedBy[c]]
    /\ UNCHANGED <<iterVars, written, acceptFd, id, ioVars, tpool, killedBy>>
    /\ UNCHANGED <<alive, mpc, srvVars, mutex, queue, wpc, wconn, aconn, nextConn,
                   accepts, loopCalls, mem, hang, deqOrder, calls, rets, frees, mainHist>>

\* line 75: the Handler returns (not from inside read or write); its call
\* record goes with it
HandlerReturn(w) ==
    /\ alive /\ wpc[w] = "handler"
    /\ ~hang[wconn[w]]
    /\ ~Pending(w)
    /\ wpc' = [wpc EXCEPT ![w] = "free"]
    /\ rets' = [rets EXCEPT ![wconn[w]] = @ + 1]
    /\ lastCall' = [lastCall EXCEPT ![w] = NoCall]
    /\ syscalls' = [syscalls EXCEPT ![w] = <<>>]
    /\ retval' = [retval EXCEPT ![w] = NoValue]
    /\ ioCalls' = [ioCalls EXCEPT ![w] = 0]
    /\ UNCHANGED <<iterVars, written, acceptFd, id, closeCalled, tpool, killedBy>>
    /\ UNCHANGED <<alive, mpc, srvVars, mutex, queue, wconn, aconn, nextConn,
                   accepts, loopCalls, connVars, deqOrder, calls, frees, closedBy, mainHist>>

\* Mutant of WorkerFree: the handle is dropped without being freed.
WorkerFreeLeak(w) ==
    /\ alive /\ wpc[w] = "free"
    /\ wconn' = [wconn EXCEPT ![w] = NULL]
    /\ wpc' = [wpc EXCEPT ![w] = "lock"]
    /\ UNCHANGED <<iterVars, written, acceptFd, id, closeCalled, ioVars, tpool, killedBy>>
    /\ UNCHANGED <<alive, mpc, srvVars, mutex, queue, aconn, nextConn, accepts,
                   loopCalls, connVars, workerHist, mainHist>>

\* Mutant of WorkerFree: the worker closes the I/O handle before it frees
\* the connection.
WorkerFreeClosing(w) ==
    /\ alive /\ wpc[w] = "free"
    /\ mem' = [mem EXCEPT ![wconn[w]] = "freed"]
    /\ frees' = [frees EXCEPT ![wconn[w]] = @ + 1]
    /\ sockst' = [sockst EXCEPT ![wconn[w]] = "closed"]
    /\ closedBy' = [closedBy EXCEPT ![wconn[w]] =
                       IF sockst[wconn[w]] = "open" THEN "dispatch" ELSE @]
    /\ wconn' = [wconn EXCEPT ![w] = NULL]
    /\ wpc' = [wpc EXCEPT ![w] = "lock"]
    /\ UNCHANGED <<iterVars, written, acceptFd, id, closeCalled, ioVars, tpool, killedBy>>
    /\ UNCHANGED <<alive, mpc, srvVars, mutex, queue, aconn, nextConn, accepts,
                   loopCalls, hang, deqOrder, calls, rets, mainHist>>

\* line 76: free(connection); the local variable dies with the iteration
WorkerFree(w) ==
    /\ alive /\ wpc[w] = "free"
    /\ mem' = [mem EXCEPT ![wconn[w]] = "freed"]
    /\ frees' = [frees EXCEPT ![wconn[w]] = @ + 1]
    /\ wconn' = [wconn EXCEPT ![w] = NULL]
    /\ wpc' = [wpc EXCEPT ![w] = "lock"]
    /\ UNCHANGED <<iterVars, written, acceptFd, id, closeCalled, ioVars, tpool, killedBy>>
    /\ UNCHANGED <<alive, mpc, srvVars, mutex, queue, aconn, nextConn, accepts,
                   loopCalls, sockst, hang, deqOrder, calls, rets,
                   closedBy, mainHist>>

\* the steps of thread_pool_handler itself, one worker; a Handler that
\* returns is not held up in read or write for ever
WorkerStep(w) ==
    \/ WorkerLock(w)
    \/ WorkerDequeue1(w)
    \/ WorkerWait(w)
    \/ WorkerReacquire(w)
    \/ WorkerDequeue2(w)
    \/ WorkerUnlock(w)
    \/ WorkerDispatch(w)
    \/ HandlerReturn(w)
    \/ (wconn[w] # NULL /\ ~hang[wconn[w]] /\ IoReturn(w))
    \/ WorkerFree(w)

\* the steps of one stream_server_loop call after its accept
LoopStep ==
    \/ \E ok \in BOOLEAN : LoopCreateHandle(ok)
    \/ LoopLock
    \/ LoopEnqueue
    \/ LoopSignal
    \/ LoopUnlock

Next ==
    \/ \E ok, pool \in BOOLEAN : CreateInit(ok, pool)
    \/ \E ok \in BOOLEAN : CreateSpawn(ok)
    \/ CreateSpawnEnd
    \/ \E ok \in BOOLEAN : CreateSocket(ok)
    \/ \E ok \in BOOLEAN : CreateSetsockopt(ok)
    \/ \E ok \in BOOLEAN : CreateBind(ok)
    \/ \E ok \in BOOLEAN : CreateListen(ok)
    \/ ProcessExit
    \/ LoopNull
    \/ LoopCall
    \/ \E ok \in BOOLEAN : LoopAccept(ok)
    \/ LoopStep
    \/ \E w \in Workers : WorkerStep(w)
    \/ \E w \in Workers : SpuriousWakeup(w)
    \/ \E w \in Workers : \E connection \in {NULL, wconn[w]} :
            stream_server_close(w, connection)
    \/ \E w \in Workers, fn \in {"read", "write"}, data \in {NULL, Buffer},
          size \in Sizes :
            \E connection \in {NULL, wconn[w]} :
                IoCall(w, fn, connection, data, size)
    \/ \E w \in Workers : IoReturn(w)

Spec == Init /\ [][Next]_vars

\* Fair scheduling: a thread that can take its next step takes it, and exit
\* completes; a Handler that returns gets the result of a read or write
\* it is waiting for.  Spurious wakeups, the Handler's calls of
\* stream_server_close, stream_server_read and stream_server_write, the
\* arrival of a peer (accept) and the caller's next call of
\* stream_server_loop are under no obligation to happen.
FairSpec ==
    /\ Spec
    /\ \A w \in Workers : WF_vars(WorkerStep(w))
    /\ WF_vars(LoopStep)
    /\ WF_vars(ProcessExit)

----------------------------------------------------------------------------
\* Helpers of the properties

Range(q) == {q[i] : i \in 1..Len(q)}
Count(q, c) == Cardinality({i \in 1..Len(q) : q[i] = c})
IsPrefix(p, q) == Len(p) <= Len(q) /\ \A i \in 1..Len(p) : p[i] = q[i]

\* the workers that own connection c: it is in their local variable
\* connection after a dequeue returned it
Holders(c) == {w \in Workers : wconn[w] = c}
\* stream_server_loop owns c from the calloc of its handle to the enqueue
MainHolds(c) == aconn = c /\ mpc \in {"lock", "enqueue"}
Owners(c) ==
    Cardinality(Holders(c)) + Count(queue, c) + (IF MainHolds(c) THEN 1 ELSE 0)

\* the Handler was called with c and has not returned
Running(c) == calls[c] > rets[c]
\* c is being serviced by a Handler that never returns
Stuck(c) == Running(c) /\ hang[c]
Exhausted == Cardinality({c \in Conns : Stuck(c)}) >= NWorkers

\* the worker threads that have been started
Started == {w \in Workers : wpc[w] # "unborn"}
\* the positions inside the while (true) loop of thread_pool_handler
LoopPcs == {"lock", "deq1", "wait", "waiting", "woken", "deq2", "unlock",
            "dispatch", "handler", "free"}

\* stream_server_loop is between its pthread_mutex_lock and its unlock
MainInCS == mpc \in {"enqueue", "signal", "unlock"}
\* worker w is between its pthread_mutex_lock and its unlock and not inside
\* pthread_cond_wait
WorkerInCS(w) == wpc[w] \in {"deq1", "wait", "deq2", "unlock"}
\* the threads that are about to perform a queue operation
QueueOps ==
    {w \in Workers : wpc[w] \in {"deq1", "deq2"}}
        \cup (IF mpc = "enqueue" THEN {0} ELSE {})

\* a was enqueued before b
EnqBefore(a, b) ==
    \E i, j \in 1..Len(enqOrder) : i < j /\ enqOrder[i] = a /\ enqOrder[j] = b
\* the connections enqueued before b whose Handler has not begun
Overtaken(b) == {a \in Conns : EnqBefore(a, b) /\ calls[a] = 0}

\* worker w was woken, found nothing at its retry and has unlocked
EmptyHanded(w) == wpc[w] = "dispatch" /\ wconn[w] = NULL
\* c is queued, its signal has been sent, and a woken worker has left its
\* critical section without a connection
Stalled(c) ==
    /\ c \in Range(queue)
    /\ signals = Len(enqOrder)
    /\ \E w \in Workers : EmptyHanded(w)

\* the fields of the server that thread_pool_handler reads
WorkerReads == {"connection_handler", "connection_handler_context",
                "pool_queue", "mutex", "condition_var"}
\* the configuration fields: handler, context, listening socket
ConfigFields == {"connection_handler", "connection_handler_context",
                 "socket_fd"}
\* the arguments of the call recorded for worker w make it return at once
BadArgs(w) ==
    InvalidArgs(lastCall[w].connection, lastCall[w].data, lastCall[w].size)
\* every started worker is inside a Handler that never returns (or no
\* worker was started at all)
PoolStuck ==
    \A w \in Workers :
        wpc[w] # "unborn" => (wpc[w] = "handler" /\ hang[wconn[w]])

\* every connection enqueued so far has been dequeued and given to the Handler
AllDispatched == \A c \in Range(enqOrder) : c \in Range(deqOrder) /\ calls[c] = 1

\* the steps of one successful stream_server_loop call, in program order
CallOrder == <<"accept", "create", "lock", "enqueue", "signal", "unlock">>

\* the CHECK_IF_INVALID sites of stream_server_create
CreateChecks == {"socket", "setsockopt", "bind", "listen"}

\* what a failed check leaves behind: the main thread is in exit, nothing
\* else failed, the main thread has not crashed (a process that is gone
\* without a signal went through exit), stream_server_create has returned
\* no server, and a failed
\* accept has created no handle, enqueued nothing and signalled nobody
FailureExits ==
    /\ failed # {} => (mpc = "exiting" /\ Cardinality(failed) = 1)
    /\ failed # {} => killedBy \in {"none", "SIGPIPE"}
    /\ (~alive /\ killedBy = "none") => failed # {}
    /\ failed \cap CreateChecks # {} => (~returned /\ loopCalls = 0)
    /\ "accept" \in failed =>
          /\ aconn = NULL
          /\ nextConn = accepts - 1
          /\ Len(enqOrder) = accepts - 1
          /\ signals = accepts - 1

----------------------------------------------------------------------------
\* C1: the Handler is invoked at most once per connection; a worker inside
\* the Handler runs it on the connection its own dequeue returned (never on
\* NULL), that connection was dequeued exactly once, and no other worker has
\* it; so no two workers run the Handler on the same connection.
C1_NoDuplicateDispatch ==
    /\ \A c \in Conns :
         /\ calls[c] <= 1
         /\ Count(deqOrder, c) <= 1
         /\ calls[c] = 1 => c \in Range(deqOrder)
         /\ Running(c) => \E w \in Workers : wpc[w] = "handler" /\ wconn[w] = c
    /\ \A w \in Workers :
         wpc[w] = "handler" =>
            /\ wconn[w] # NULL
            /\ wconn[w] \in Range(deqOrder)
            /\ calls[wconn[w]] = 1
            /\ Holders(wconn[w]) = {w}

\* two workers run Handlers at the same time, on different connections
C1_Witness ==
    \E w1, w2 \in Workers :
        /\ w1 # w2
        /\ wpc[w1] = "handler" /\ wpc[w2] = "handler"
        /\ calls[wconn[w1]] = 1 /\ calls[wconn[w2]] = 1

\* C2: under fair scheduling, with at least one worker started, as long as
\* the process is not terminated or killed (no accept fails, no handle
\* allocation fails, no write raises SIGPIPE) and every Handler returns, it
\* happens again and again that
\* every connection enqueued so far has been dequeued and its Handler
\* invoked: no connection remains queued forever, however large the backlog
\* has grown.
C2_BurstLiveness ==
    \/ <>(failed # {} \/ killedBy # "none" \/ \E c \in Conns : hang[c])
    \/ <>(mpc # "create" /\ spawned = NWorkers /\ Started = {})
    \/ []<>AllDispatched

\* the whole burst is queued before any worker has dequeued anything
C2_Witness ==
    /\ Started = Workers
    /\ Len(queue) = MaxConn
    /\ mpc = "idle"
    /\ failed = {}
    /\ \A c \in Conns : calls[c] = 0

\* C3: connections leave the queue in the order they were enqueued: the
\* sequence of dequeued connections is always a prefix of the sequence of
\* enqueued ones, whichever workers dequeue.
C3_FifoDequeue == IsPrefix(deqOrder, enqOrder)

\* two connections were dequeued by different workers, the later one by the
\* worker with the smaller index, and a third is queued
C3_Witness ==
    /\ Len(deqOrder) = 2
    /\ \E w1, w2 \in Workers :
          w2 < w1 /\ wconn[w1] = deqOrder[1] /\ wconn[w2] = deqOrder[2]
    /\ Len(queue) >= 1

\* C4: a live connection handle has exactly one owner (stream_server_loop,
\* the queue, or one worker) and a handle that is not live has none; a
\* connection is enqueued at most once.
C4_SingleOwner ==
    \A c \in Conns :
        /\ Owners(c) = (IF mem[c] = "live" THEN 1 ELSE 0)
        /\ Count(enqOrder, c) <= 1
        /\ Count(queue, c) <= 1
        /\ (c \in Range(queue)) => Holders(c) = {}

\* one connection freed, one held by a worker, one in the queue
C4_Witness ==
    /\ \E c \in Conns : mem[c] = "freed"
    /\ \E c \in Conns : Holders(c) # {} /\ mem[c] = "live"
    /\ \E c \in Conns : c \in Range(queue)

\* C5: one stream_server_loop call on a server that is not NULL performs one
\* accept and, when the accept succeeds, one enqueue and one signal, in the
\* order accept, create handle, lock, enqueue, signal, unlock; it returns
\* after the unlock with the mutex released, so the queue has received
\* exactly one element per returned call.
C5_OneAcceptPerCall ==
    /\ IsPrefix(atrace, CallOrder)
    /\ returned => accepts = (IF mpc = "accept" THEN loopCalls - 1 ELSE loopCalls)
    /\ (mpc = "idle" /\ loopCalls > 0) =>
          /\ atrace = CallOrder
          /\ Len(enqOrder) = loopCalls
          /\ signals = loopCalls
          /\ mutex # ByMain
          /\ aconn = NULL
    /\ mpc \in {"accept", "calloc", "lock", "enqueue"} =>
          (Len(enqOrder) = loopCalls - 1 /\ signals = loopCalls - 1)
    /\ mpc = "signal" => (Len(enqOrder) = loopCalls /\ signals = loopCalls - 1)
    /\ mpc = "unlock" => (Len(enqOrder) = loopCalls /\ signals = loopCalls)
    /\ (mutex = ByMain) <=> (mpc \in {"enqueue", "signal", "unlock"})

\* the second call has returned: two accepts, two enqueues, two signals
C5_Witness ==
    /\ mpc = "idle" /\ loopCalls = 2
    /\ accepts = 2 /\ Len(enqOrder) = 2 /\ signals = 2
    /\ mutex = Free

\* C6: a worker does not hold the mutex from its unlock to the end of the
\* Handler call and the free; and once every worker is inside a Handler that
\* never returns, a stream_server_loop call whose accept has succeeded still
\* gets the mutex, enqueues its connection and returns (unless the process
\* is killed first: by the failed calloc of the handle at line 153, before
\* the call reaches the mutex, or by a SIGPIPE raised in a Handler).
C6_HandlerOutsideMutex ==
    /\ [](\A w \in Workers :
            wpc[w] \in {"dispatch", "handler", "free"} => mutex # ByWorker(w))
    /\ [](Exhausted => mutex.kind # "worker")
    /\ (Exhausted /\ mpc = "calloc")
          ~> \/ mpc = "idle" /\ mutex = Free /\ nextConn \in Range(queue)
             \/ killedBy = "SIGSEGV" /\ mpc = "calloc"
             \/ killedBy = "SIGPIPE"

\* stream_server_loop holds the mutex and is about to enqueue while every
\* worker is inside a Handler that never returns
C6_Witness ==
    /\ Exhausted
    /\ \A w \in Workers : wpc[w] = "handler"
    /\ mpc = "enqueue" /\ mutex = ByMain

\* C7: the worker frees a connection at most once, only after the Handler
\* called with it has returned, never while it is queued or its Handler
\* runs, and exactly once by the time the worker has left the iteration; the
\* worker never closes the I/O handle.
C7_FreeOnceAfterHandler ==
    \A c \in Conns :
        /\ frees[c] <= 1
        /\ (mem[c] = "freed") <=> (frees[c] = 1)
        /\ frees[c] = 1 =>
              /\ calls[c] = 1 /\ rets[c] = 1
              /\ c \notin Range(queue)
              /\ ~Running(c)
        /\ (rets[c] = 1 /\ Holders(c) = {}) => frees[c] = 1
        /\ closedBy[c] # "dispatch"

\* a connection was freed after its Handler returned without closing it,
\* while another connection's Handler runs
C7_Witness ==
    \E c, d \in Conns :
        /\ frees[c] = 1 /\ rets[c] = 1 /\ sockst[c] = "open"
        /\ Running(d)

\* C8 as stated: the I/O handle of a connection is closed if and only if
\* its Handler called stream_server_close on it; when the Handler has
\* returned without calling it, the handle is open, in every later state,
\* and the connection's memory is freed all the same.
C8_AsStated ==
    \A c \in Conns :
        /\ (sockst[c] = "closed") <=> closeCalled[c]
        /\ (rets[c] = 1 /\ ~closeCalled[c]) => sockst[c] = "open"
        /\ (rets[c] = 1 /\ Holders(c) = {}) => mem[c] = "freed"

\* C8, what holds: a connection's socket is closed only by a call of
\* stream_server_close made by a running Handler, never by the worker loop
\* or by stream_server_loop, and the connection's memory is freed after the
\* Handler whether it closed or not.  The call closes the descriptor number
\* stored in the handle it is given: the Handler's call on its own
\* connection leaves that connection's socket closed, and a call repeated
\* after accept has handed the number out again closes the socket of that
\* later connection, whose own Handler may not have called
\* stream_server_close or may have returned without calling it.
C8_CloseOnlyByHandler ==
    /\ [](\A c \in Conns :
            /\ (sockst[c] = "closed") <=> (closedBy[c] \in {"handler", "stale"})
            /\ closedBy[c] = "handler" => closeCalled[c]
            /\ closeCalled[c] => sockst[c] = "closed"
            /\ closedBy[c] = "stale" =>
                  \E d \in Conns :
                      /\ d < c /\ id[d] = id[c]
                      /\ sockst[d] = "closed" /\ calls[d] = 1
            /\ (rets[c] = 1 /\ Holders(c) = {}) => mem[c] = "freed")
    /\ [][\A c \in Conns :
            (sockst[c] = "open" /\ sockst'[c] = "closed") =>
                \E w \in Workers :
                    /\ wpc[w] = "handler" /\ wpc'[w] = "handler"
                    /\ id[wconn[w]] = id[c]
                    /\ closeCalled'[wconn[w]]
                    /\ closedBy'[c] = IF wconn[w] = c THEN "handler"
                                                     ELSE "stale"]_vars
    /\ [][\A c \in Conns :
            (rets[c] = 1 /\ sockst[c] = "open" /\ sockst'[c] = "closed") =>
                closedBy'[c] = "stale"]_vars

\* one connection closed by its Handler and freed, another left open by its
\* Handler and freed
C8_Witness ==
    \E c, d \in Conns :
        /\ mem[c] = "freed" /\ sockst[c] = "closed" /\ closedBy[c] = "handler"
        /\ mem[d] = "freed" /\ sockst[d] = "open" /\ closedBy[d] = "nobody"
        /\ ~closeCalled[d]

\* C9 as stated: a failed socket, setsockopt, bind, listen or accept ends in
\* exit and the process terminates; stream_server_create has then not
\* returned a server, a failed accept has enqueued nothing and signalled
\* nobody, and from the failure on no worker dequeues a connection or
\* invokes the Handler.
C9_AsStated ==
    /\ []FailureExits
    /\ [][failed # {} => (deqOrder' = deqOrder /\ calls' = calls)]_vars
    /\ (failed # {}) ~> ~alive

\* C9 as amended: a failed socket, setsockopt, bind, listen or accept ends in
\* exit and the process terminates; stream_server_create has then not
\* returned a server, a failed accept has enqueued nothing and signalled
\* nobody, and once the process has terminated no worker dequeues or invokes
\* the Handler.  (Between the failed call and the end of exit the workers
\* still run.)
C9_FailureTerminates ==
    /\ []FailureExits
    /\ [][~alive => (deqOrder' = deqOrder /\ calls' = calls /\ queue' = queue)]_vars
    /\ (failed # {}) ~> ~alive

\* the process has terminated on a failed accept, with a connection still
\* in the queue and another one dispatched
C9_Witness ==
    /\ ~alive
    /\ failed = {"accept"}
    /\ queue # <<>>
    /\ \E c \in Conns : calls[c] = 1

\* C10: once NWorkers connections are each being serviced by a Handler that
\* never returns, the pool stays exhausted, nothing is dequeued and no
\* Handler is invoked any more; a connection accepted from then on is
\* enqueued and stays in the queue (unless the process is killed first: by
\* the failed calloc of its handle at line 153 or by a SIGPIPE raised in a
\* Handler).
C10_PoolExhaustion ==
    /\ [][Exhausted =>
            /\ Exhausted'
            /\ deqOrder' = deqOrder
            /\ calls' = calls
            /\ IsPrefix(queue, queue')]_vars
    /\ [](Exhausted =>
            \A c \in Range(queue) : calls[c] = 0 /\ c \notin Range(deqOrder))
    /\ (Exhausted /\ mpc = "calloc")
          ~> \/ nextConn \in Range(queue)
             \/ killedBy = "SIGSEGV" /\ mpc = "calloc"
             \/ killedBy = "SIGPIPE"

\* the pool is exhausted and a connection enqueued since then sits in the
\* queue with its Handler never invoked
C10_Witness ==
    /\ Exhausted
    /\ mpc = "idle"
    /\ queue = <<MaxConn>>
    /\ calls[MaxConn] = 0

\* C11 as stated: the started workers are those of the pthread_create
\* calls made so far, and once the loop is over, in particular when
\* stream_server_create has returned, exactly NWorkers workers exist.
C11_AsStated ==
    /\ Started = 1..spawned
    /\ mpc \notin {"create", "nullsrv", "spawn"} => Started = Workers
    /\ returned => Started = Workers

\* C11, what holds: the worker threads are started by the pthread_create
\* loop of stream_server_create and by nothing else; the loop makes exactly
\* NWorkers pthread_create calls, each of which starts at most one worker;
\* after the loop the set of workers never changes, and a started worker is
\* at every later step inside its dequeue-and-dispatch loop (it is never
\* stopped, joined or removed while the process runs).
C11_FixedPool ==
    /\ [](Started \subseteq 1..spawned /\ spawned <= NWorkers)
    /\ [](mpc \notin {"create", "nullsrv", "spawn"} => spawned = NWorkers)
    /\ [](returned => spawned = NWorkers)
    /\ [][Started' # Started =>
            /\ mpc = "spawn" /\ mpc' = "spawn"
            /\ spawned' = spawned + 1
            /\ Started' = Started \cup {spawned'}]_vars
    /\ [][\A w \in Started : wpc'[w] \in LoopPcs]_vars

\* stream_server_create has returned, connections have been served and freed,
\* and every worker is still in its loop
C11_Witness ==
    /\ returned
    /\ Started = Workers
    /\ \A w \in Workers : wpc[w] \in LoopPcs
    /\ \E c \in Conns : frees[c] = 1
    /\ \E c \in Conns : sockst[c] = "closed"

\* C16: a thread is between its lock and its unlock exactly when the mutex
\* records it as the holder, so at most one thread is; a worker inside
\* pthread_cond_wait (blocked, or woken and not yet back) does not hold the
\* mutex; at most one thread is at a queue operation, and every step that
\* changes the queue is taken by the holder: an enqueue by stream_server_loop,
\* a dequeue by the worker that receives the front element.
C16_QueueUnderMutex ==
    /\ [](MainInCS <=> mutex = ByMain)
    /\ [](\A w \in Workers : WorkerInCS(w) <=> mutex = ByWorker(w))
    /\ [](Cardinality({w \in Workers : WorkerInCS(w)})
              + (IF MainInCS THEN 1 ELSE 0) <= 1)
    /\ [](\A w \in Workers :
            wpc[w] \in {"waiting", "woken"} => mutex # ByWorker(w))
    /\ [](Cardinality(QueueOps) <= 1)
    /\ [][queue' # queue =>
            /\ mutex # Free /\ mutex' = mutex
            /\ Len(queue') > Len(queue) => mutex = ByMain
            /\ Len(queue') < Len(queue) =>
                 \E w \in Workers :
                    mutex = ByWorker(w) /\ wconn'[w] = Head(queue)]_vars

\* stream_server_loop holds the mutex and is about to enqueue behind a queued
\* connection while one worker is woken inside pthread_cond_wait and another
\* is blocked in pthread_mutex_lock
C16_Witness ==
    /\ mpc = "enqueue" /\ mutex = ByMain /\ queue # <<>>
    /\ \E w \in Workers : wpc[w] = "woken"
    /\ \E w \in Workers : wpc[w] = "lock"

\* C17: while a connection is queued and stream_server_loop is not just about
\* to signal (in particular whenever the mutex is free) some started worker
\* is not blocked on the condition variable, if any worker was started; a worker enters
\* pthread_cond_wait only from its own first dequeue, holding the mutex, with
\* no connection in hand and the queue empty; so a signal sent while no
\* worker waits leaves no connection queued with every worker blocked.
C17_NoLostWakeup ==
    /\ []((mutex = Free /\ queue # <<>> /\ Started # {}) =>
            \E w \in Started : wpc[w] # "waiting")
    /\ []((queue # <<>> /\ mpc # "signal" /\ Started # {}) =>
            \E w \in Started : wpc[w] # "waiting")
    /\ [](\A w \in Workers :
            wpc[w] = "wait" =>
                queue = <<>> /\ wconn[w] = NULL /\ mutex = ByWorker(w))
    /\ [][\A w \in Workers :
            (wpc'[w] = "waiting" /\ wpc[w] # "waiting") =>
                wpc[w] = "wait" /\ queue = <<>> /\ mutex = ByWorker(w)]_vars
    /\ [][(signals' > signals /\ Waiting = {} /\ Started # {}) =>
            (queue' # <<>> /\ \E w \in Started : wpc'[w] # "waiting")]_vars

\* stream_server_loop has signalled and released the mutex, a connection is
\* queued, one worker is still blocked on the condition variable and the only
\* other one has been woken and has not yet taken the mutex back
C17_Witness ==
    /\ mutex = Free /\ queue # <<>> /\ mpc = "idle"
    /\ signals = Len(enqOrder)
    /\ \E w \in Workers : wpc[w] = "waiting"
    /\ Cardinality({w \in Workers : wpc[w] # "waiting"}) = 1
    /\ \E w \in Workers : wpc[w] = "woken"
\* C15 as stated: whenever the Handler has begun for a connection it has
\* begun for every connection enqueued before it.
C15_AsStated ==
    \A a, b \in Conns : (EnqBefore(a, b) /\ calls[b] >= 1) => calls[a] >= 1

\* C15: when the Handler has begun for a connection, every connection
\* enqueued before it has been dequeued, in insertion order; those of them
\* whose Handler has not begun are each in the hands of a worker that has
\* left its critical section and not yet called the Handler, so they are
\* fewer than NWorkers.
C15_DispatchOrder ==
    /\ IsPrefix(deqOrder, enqOrder)
    /\ \A b \in Conns :
          calls[b] >= 1 =>
            /\ \A a \in Conns : EnqBefore(a, b) => a \in Range(deqOrder)
            /\ \A a \in Overtaken(b) :
                  \E w \in Workers :
                     wconn[w] = a /\ wpc[w] = "dispatch"
            /\ Cardinality(Overtaken(b)) <= NWorkers - 1

\* the Handler of a later connection has returned and the connection has
\* been freed while the worker that dequeued an earlier one has not yet
\* called the Handler
C15_Witness ==
    \E a, b \in Conns :
        /\ EnqBefore(a, b) /\ frees[b] = 1 /\ calls[a] = 0
        /\ \E w \in Workers : wconn[w] = a /\ wpc[w] = "dispatch"

\* C14 as stated: once a woken worker has left its critical section
\* empty-handed with a connection queued, the connection stays queued as long
\* as no further signal is sent.
C14_AsStated ==
    \A c \in Conns : \A k \in 0..MaxConn :
        []((Stalled(c) /\ signals = k) =>
               [](signals = k => c \in Range(queue)))

\* C14: a worker leaves its critical section empty-handed only when its
\* retry found the queue empty, and the queue is still empty when it
\* unlocks; it then starts the next iteration with a dequeue that needs no
\* signal, so connections queued after the last signal that will ever be
\* sent are still dequeued unless every started worker is inside a Handler
\* that never returns or the process ends.
C14_NoStall ==
    /\ [](\A w \in Workers :
            (wpc[w] = "unlock" /\ wconn[w] = NULL) => queue = <<>>)
    /\ [][\A w \in Workers :
            (wpc[w] = "deq2" /\ wpc'[w] = "unlock" /\ wconn'[w] = NULL) =>
                queue = <<>>]_vars
    /\ [][\A w \in Workers :
            EmptyHanded(w) => wpc'[w] \in {"dispatch", "lock"}]_vars
    /\ (queue # <<>> /\ signals = MaxConn)
          ~> (queue = <<>> \/ PoolStuck \/ ~alive)

\* a woken worker has left its critical section empty-handed, and a
\* connection enqueued and signalled since then is waiting in the queue with
\* the mutex free
C14_Witness ==
    /\ mutex = Free /\ mpc = "idle"
    /\ \E c \in Conns : Stalled(c)
    /\ \E w \in Workers : wpc[w] = "handler"

\* C12: stream_server_read returns 0 without calling read when the
\* connection or the buffer is NULL or max_data_size < 1; otherwise it calls
\* read once, on the connection's descriptor with max_data_size, and once
\* that call has returned it returns the result when it is positive and 0
\* when it is 0 or negative; the value returned is never above
\* max_data_size.
C12_ReadResult ==
    \A w \in Workers :
        lastCall[w].fn = "read" =>
            /\ BadArgs(w) => (retval[w] = Value(0) /\ syscalls[w] = <<>>)
            /\ Pending(w) => retval[w] = NoValue
            /\ (~BadArgs(w) /\ ~Pending(w)) =>
                  /\ Len(syscalls[w]) = 1
                  /\ syscalls[w][1].op = "read"
                  /\ syscalls[w][1].fd = lastCall[w].connection
                  /\ syscalls[w][1].count = lastCall[w].size
                  /\ syscalls[w][1].result > 0 =>
                        retval[w] = Value(syscalls[w][1].result)
                  /\ syscalls[w][1].result <= 0 => retval[w] = Value(0)
                  /\ retval[w].kind = "size_t" /\ retval[w].n \in 0..lastCall[w].size

\* a read with valid arguments has returned a count below max_data_size
\* while the other worker was running
C12_Witness ==
    \E w \in Workers :
        /\ lastCall[w].fn = "read" /\ ~BadArgs(w) /\ ~Pending(w)
        /\ syscalls[w][1].result > 0
        /\ syscalls[w][1].result < lastCall[w].size
        /\ retval[w] = Value(syscalls[w][1].result)
        /\ \E v \in Workers : v # w /\ wpc[v] = "waiting"

\* C13 as stated: stream_server_write calls write not at all when the
\* connection or the buffer is NULL or data_size < 1, and otherwise once;
\* whatever that call does, the function returns no value and the process
\* and the server are as they were.
C13_AsStated ==
    \A w \in Workers :
        (lastCall[w].fn = "write" /\ ~Pending(w)) =>
            /\ retval[w] = Void
            /\ killedBy # "SIGPIPE"
            /\ BadArgs(w) => syscalls[w] = <<>>
            /\ ~BadArgs(w) =>
                  (Len(syscalls[w]) = 1 /\ syscalls[w][1].op = "write")

\* C13, what holds: stream_server_write calls write not at all when the
\* connection or the buffer is NULL or data_size < 1, and otherwise once, on
\* the connection's descriptor with data_size; when that call returns
\* (complete, short, or failed without a signal) the function returns no
\* value and nothing of the server has changed; when it raises SIGPIPE the
\* process is killed and the function does not return.
C13_WriteOnce ==
    /\ [](\A w \in Workers :
            lastCall[w].fn = "write" =>
                /\ BadArgs(w) => (syscalls[w] = <<>> /\ retval[w] = Void)
                /\ Pending(w) => retval[w] = NoValue
                /\ (~BadArgs(w) /\ ~Pending(w)) =>
                      /\ Len(syscalls[w]) = 1
                      /\ syscalls[w][1].op = "write"
                      /\ syscalls[w][1].fd = lastCall[w].connection
                      /\ syscalls[w][1].count = lastCall[w].size
                      /\ syscalls[w][1].signal = "none" => retval[w] = Void
                      /\ syscalls[w][1].signal = "SIGPIPE" =>
                            /\ retval[w] = NoValue
                            /\ ~alive /\ killedBy = "SIGPIPE"
                            /\ syscalls[w][1].result = -1)
    /\ [](killedBy = "SIGPIPE" =>
            \E w \in Workers :
                /\ lastCall[w].fn = "write"
                /\ syscalls[w] # <<>> /\ syscalls[w][1].signal = "SIGPIPE")
    /\ [][\A w \in Workers :
            (lastCall'[w].fn = "write"
               /\ <<lastCall[w], syscalls[w], retval[w]>>
                     # <<lastCall'[w], syscalls'[w], retval'[w]>>)
            => UNCHANGED srvState]_vars

\* a write with valid arguments has sent only part of the data and returned
C13_Witness ==
    \E w \in Workers :
        /\ lastCall[w].fn = "write" /\ ~BadArgs(w) /\ ~Pending(w)
        /\ syscalls[w][1].result >= 0
        /\ syscalls[w][1].result < lastCall[w].size
        /\ retval[w] = Void /\ alive

\* C18: between its pthread_mutex_lock and its pthread_mutex_unlock a worker
\* dequeues at most twice and waits at most once; it waits only after a
\* first dequeue that returned NULL; after the wait it dequeues exactly once
\* more and goes to the unlock whatever the result; it does not hold the
\* mutex when it tests the connection, runs the Handler, frees the handle or
\* starts the next iteration.
C18_OneRetry ==
    /\ [](\A w \in Workers :
            /\ tries[w] <= 2 /\ waits[w] <= 1
            /\ wpc[w] = "deq1" => (tries[w] = 0 /\ waits[w] = 0)
            /\ wpc[w] = "wait" =>
                  (tries[w] = 1 /\ waits[w] = 0 /\ wconn[w] = NULL)
            /\ wpc[w] \in {"waiting", "woken", "deq2"} =>
                  (tries[w] = 1 /\ waits[w] = 1)
            /\ wpc[w] = "unlock" =>
                  \/ tries[w] = 1 /\ waits[w] = 0 /\ wconn[w] # NULL
                  \/ tries[w] = 2 /\ waits[w] = 1
            /\ wpc[w] \in {"dispatch", "handler", "free", "lock"} =>
                  mutex # ByWorker(w))
    /\ [][\A w \in Workers :
            waits'[w] > waits[w] => (tries[w] = 1 /\ wconn[w] = NULL)]_vars
    /\ [][\A w \in Workers :
            (wpc[w] = "deq2" /\ wpc'[w] # "deq2") => wpc'[w] = "unlock"]_vars
    /\ [][\A w \in Workers :
            (wpc[w] = "dispatch" /\ wpc'[w] # "dispatch") =>
                /\ mutex # ByWorker(w)
                /\ wpc'[w] = (IF wconn[w] = NULL THEN "lock" ELSE "handler")]_vars

\* one worker is at its unlock after a wait and a second dequeue that
\* returned NULL, another has served a connection
C18_Witness ==
    /\ \E w \in Workers :
          wpc[w] = "unlock" /\ tries[w] = 2 /\ waits[w] = 1 /\ wconn[w] = NULL
    /\ \E c \in Conns : frees[c] = 1

\* C19: no field of the server is written twice; the handler, its context
\* and the listening socket are written once by the time
\* stream_server_create returns; a write happens only inside
\* stream_server_create, never after it has returned; when the first worker
\* is started the handler, the context, the queue, the mutex and the
\* condition variable have been written.
C19_WriteOnce ==
    /\ [](\A f \in Range(written) : Count(written, f) = 1)
    /\ [](returned => \A f \in ConfigFields : Count(written, f) = 1)
    /\ [](Started # {} => WorkerReads \subseteq Range(written))
    /\ [][written' # written => (mpc \in {"create", "socket"} /\ ~returned')]_vars
    /\ [][returned => written' = written]_vars

\* stream_server_create has returned, every field has been written, a worker
\* runs the Handler and a connection has been served
C19_Witness ==
    /\ returned
    /\ Len(written) = Len(SetupFields) + 1
    /\ \E w \in Workers : wpc[w] = "handler"
    /\ \E c \in Conns : frees[c] = 1

====
